---- MODULE Spec2Model ----
(***************************************************************************)
(* Model of the ai_pg command line: the generate-metadata command          *)
(* (src/ai_pg/commands/generate_metadata.py), its orchestration loop       *)
(* handle_user_message, and the run-mcp command                            *)
(* (src/ai_pg/commands/run_mcp.py).                                        *)
(*                                                                         *)
(* The agent session (llama_index FunctionAgent behind agent.run) is not   *)
(* part of the repository.  It is modelled as an environment that follows  *)
(* the contract of the specification, section 4.3: it emits ToolCall and   *)
(* ToolCallResult events into a stream and ends in Completed,              *)
(* IterationCeilingReached or BackendFailure.                              *)
(***************************************************************************)
EXTENDS Integers, Sequences, FiniteSets, TLC

\* ---------------------------------------------------------------- bounds
MaxCeiling == 2       \* largest AGENT_MAX_ITERATIONS value explored
MaxEvents == 4        \* tool calls and results one session emits at most
MaxTime == 1          \* last tick of the discrete clock
MaxRows == 5          \* data rows of a CSV file on the tool server's disk
MaxCols == 3          \* columns of such a file
MaxDocs == 4          \* documents MarkdownReader makes of a Markdown file
MaxSchemaCalls == 2   \* calls of get_metadata_schema the server is sent

\* ------------------------------------------------------------- vocabulary
ToolNames == {"get_metadata_schema", "get_resource_data"}
NoEntry == -1         \* "key not in tool_times"
NoCall == 0           \* call id of a ToolCallResult that answers no call

CeilingValues == 1..MaxCeiling

\* exception classes the awaited handler can raise
ExceptionTypes == {"WorkflowRuntimeError", "ResponseError", "HttpxConnectError"}

\* str(e) of the exceptions.  The ceiling text is the agent library's, the
\* ResponseError texts are the backend's and never equal the library's texts.
CeilingText == "Max iterations reached"
RuntimeTexts == {"Error in step"}
BackendTexts == {"model not found"}
ConnectTexts == {"All connection attempts failed"}

VARIABLES
    command,              \* the sub-command the process was started with
    main_path_exists,     \* run_mcp: does mcp_client/main.py exist
    AGENT_MAX_ITERATIONS, \* Config.AGENT_MAX_ITERATIONS, read at import
    pc,                   \* position of the command
    now,                  \* time.time(), discrete
    discoveries,          \* number of to_tool_list_async calls
    agents,               \* number of FunctionAgent constructions
    runs,                 \* number of agent.run calls
    max_iterations,       \* the ceiling agent.run was given
    sess,                 \* state of the agent session
    iteration_count,      \* tool-calling rounds the session performed
    outstanding,          \* calls whose result is not yet emitted
    nextId,               \* next call id
    called,               \* tool names the session has called
    emitted,              \* tool calls and results the session has emitted
    exc,                  \* exception of the session: [type, text] or none
    stream,               \* events emitted and not yet handled
    sent,                 \* ghost: every event the session emitted, in order
    streamClosed,         \* the session wrote its last event
    start,                \* handle_user_message: start
    tool_times,           \* handle_user_message: tool_times[name]["start"]
    lastWriter,           \* ghost: id of the call that wrote tool_times[name]
    handled,              \* ghost: events handled, with the handling time
    errorSeen,            \* ghost: a tool-level error result was handled
    reports,              \* latency lines printed, with ghost pairing
    stdout,               \* lines printed by click.secho / click.echo
    result,               \* how handle_user_message ended
    exitCode,             \* exit status of the process, -1 while running
    disk,                 \* tool server: what the files on its disk hold
    call,                 \* tool server: the last tool call it received
    reply,                \* tool server: what that call returned or raised
    schemas,              \* ghost: every reply of get_metadata_schema
    isoPc,                \* two requests: position of each
    isoTimes,             \* two requests: the tool_times dict of each
    isoOwn,               \* ghost: the entries each request wrote itself
    isoPending,           \* two requests: calls each session awaits
    isoIters,             \* two requests: rounds of each session
    isoMax,               \* two requests: the ceiling each run was given
    isoElapsed            \* two requests: the last time each printed

vars == <<command, main_path_exists, AGENT_MAX_ITERATIONS, pc, now,
          discoveries, agents, runs, max_iterations, sess, iteration_count,
          outstanding, nextId, called, emitted, exc, stream, sent,
          streamClosed, start, tool_times, lastWriter, handled, errorSeen,
          reports, stdout, result, exitCode, disk, call, reply, schemas,
          isoPc, isoTimes, isoOwn, isoPending, isoIters, isoMax, isoElapsed>>

commandVars == <<command, main_path_exists, AGENT_MAX_ITERATIONS, pc, now,
                 discoveries, agents, runs, max_iterations, sess,
                 iteration_count, outstanding, nextId, called, emitted, exc,
                 stream, sent, streamClosed, start, tool_times, lastWriter,
                 handled, errorSeen, reports, stdout, result, exitCode>>
serverVars == <<disk, call, reply, schemas>>
isoVars == <<isoPc, isoTimes, isoOwn, isoPending, isoIters, isoMax,
             isoElapsed>>
otherVars == <<serverVars, isoVars>>
envVars == <<command, main_path_exists, AGENT_MAX_ITERATIONS>>
agentVars == <<sess, iteration_count, outstanding, nextId, called,
               emitted, exc, stream, sent, streamClosed>>
loopVars == <<start, tool_times, lastWriter, handled, errorSeen, reports>>
countVars == <<discoveries, agents, runs, max_iterations>>

NoException == [type |-> "none", text |-> "none"]
NoResult == [kind |-> "none", value |-> <<>>]

TerminalStates == {"Completed", "IterationCeilingReached", "BackendFailure"}
SessionStates == {"NotStarted", "Pending", "ToolCalling", "ToolResult"}
                    \cup TerminalStates

\* what is not there: a file, a call, a reply
Absent == [kind |-> "absent"]
NoToolCall == [tool |-> "none", filepath |-> <<>>]
NoReply == [kind |-> "none"]

\* the tool server has served nothing; the command does not read its disk
ServerIdle ==
    /\ disk = [csv |-> Absent, md |-> Absent]
    /\ call = NoToolCall
    /\ reply = NoReply
    /\ schemas = <<>>

\* two requests served by one process
Sessions == {"A", "B"}

\* neither request has started
IsoIdle ==
    /\ isoPc = [s \in Sessions |-> "handle"]
    /\ isoTimes = [s \in Sessions |-> [n \in ToolNames |-> NoEntry]]
    /\ isoOwn = [s \in Sessions |-> [n \in ToolNames |-> NoEntry]]
    /\ isoPending = [s \in Sessions |-> {}]
    /\ isoIters = [s \in Sessions |-> 0]
    /\ isoMax = [s \in Sessions |-> 0]
    /\ isoElapsed = [s \in Sessions |-> NoEntry]

\* ------------------------------------------------------------------ Init
CommandInit ==
    /\ command \in {"generate-metadata", "run-mcp"}
    /\ main_path_exists \in (IF command = "run-mcp" THEN BOOLEAN ELSE {TRUE})
    /\ AGENT_MAX_ITERATIONS \in CeilingValues
    /\ pc = "entry"
    /\ now = 0
    /\ discoveries = 0
    /\ agents = 0
    /\ runs = 0
    /\ max_iterations = 0
    /\ sess = "NotStarted"
    /\ iteration_count = 0
    /\ outstanding = {}
    /\ nextId = 1
    /\ called = {}
    /\ emitted = 0
    /\ exc = NoException
    /\ stream = <<>>
    /\ sent = <<>>
    /\ streamClosed = FALSE
    /\ start = 0
    /\ tool_times = [n \in ToolNames |-> NoEntry]
    /\ lastWriter = [n \in ToolNames |-> NoCall]
    /\ handled = <<>>
    /\ errorSeen = FALSE
    /\ reports = <<>>
    /\ stdout = <<>>
    /\ result = NoResult
    /\ exitCode = -1

Init == CommandInit /\ ServerIdle /\ IsoIdle

\* click.secho(text, fg=colour); click.echo and a secho without fg print
\* without colour.  A text is a tuple of its fixed part and what is formatted
\* into it; elapsed is the number formatted into a timing line, else -1.
Line(text, fg, elapsed) == [text |-> text, fg |-> fg, elapsed |-> elapsed]
secho(text, fg) == stdout' = Append(stdout, Line(text, fg, -1))

\* ----------------------------------------------------------------- clock
\* time passes; the clock is read in handle_user_message only, so its
\* ticks are followed while that coroutine consumes the stream
Tick ==
    /\ pc = "stream"
    /\ now < MaxTime
    /\ now' = now + 1
    /\ UNCHANGED <<otherVars, envVars, pc, countVars, agentVars, loopVars, stdout,
                   result, exitCode>>

\* --------------------------------------------------------------- run-mcp
\* run_mcp, script missing: echo the error and sys.exit(1)
RunMcpMissing ==
    /\ command = "run-mcp"
    /\ pc = "entry"
    /\ ~main_path_exists
    /\ secho(<<"Error: MCP main.py not found">>, "none")
    /\ pc' = "done"
    /\ exitCode' = 1
    /\ UNCHANGED <<otherVars, envVars, now, countVars, agentVars, loopVars, result>>

\* run_mcp, script present: echo, run the server as a subprocess, return
RunMcpServe ==
    /\ command = "run-mcp"
    /\ pc = "entry"
    /\ main_path_exists
    /\ secho(<<"Starting local MCP server...">>, "none")
    /\ pc' = "done"
    /\ exitCode' = 0
    /\ UNCHANGED <<otherVars, envVars, now, countVars, agentVars, loopVars, result>>

\* ----------------------------------------------------- generate-metadata
\* generate_metadata, lines 42-46: discovery succeeded
DiscoverOk ==
    /\ command = "generate-metadata"
    /\ pc = "entry"
    /\ discoveries' = discoveries + 1
    /\ pc' = "get_agent"
    /\ UNCHANGED <<otherVars, envVars, now, agents, runs, max_iterations, agentVars,
                   loopVars, stdout, result, exitCode>>

\* the same with the failure ignored: the command goes on without tools
DiscoverFailContinue ==
    /\ command = "generate-metadata"
    /\ pc = "entry"
    /\ discoveries' = discoveries + 1
    /\ secho(<<"Failed to create MCP tools. Please check the MCP client URL.">>,
             "red")
    /\ pc' = "get_agent"
    /\ UNCHANGED <<otherVars, envVars, now, agents, runs, max_iterations, agentVars,
                   loopVars, result, exitCode>>

\* generate_metadata, lines 45-50: to_tool_list_async raised; the command
\* prints the red line and returns
DiscoverFail ==
    /\ command = "generate-metadata"
    /\ pc = "entry"
    /\ discoveries' = discoveries + 1
    /\ secho(<<"Failed to create MCP tools. Please check the MCP client URL.">>,
             "red")
    /\ pc' = "done"
    /\ exitCode' = 0
    /\ UNCHANGED <<otherVars, envVars, now, agents, runs, max_iterations, agentVars,
                   loopVars, result>>

\* generate_metadata, lines 52-53 with get_agent, lines 72-106
GetAgent ==
    /\ pc = "get_agent"
    /\ stdout' = stdout \o
           << Line(<<"Creating agent with available tools: ">>, "blue", -1),
              Line(<<"Ollama model settings:">>, "blue", -1) >>
    /\ agents' = agents + 1
    /\ pc' = "handle"
    /\ UNCHANGED <<otherVars, envVars, now, discoveries, runs, max_iterations, agentVars,
                   loopVars, result, exitCode>>

\* the ceiling handed to agent.run when the keyword is off by one
RunMaxIterationsOffByOne == AGENT_MAX_ITERATIONS + 1

\* handle_user_message, line 121: max_iterations=Config.AGENT_MAX_ITERATIONS
RunMaxIterations == AGENT_MAX_ITERATIONS

\* handle_user_message, lines 114-122: print, take the start time, create
\* the empty tool_times and start the agent session
HumStart ==
    /\ pc = "handle"
    /\ secho(<<"Handling user message: ">>, "yellow")
    /\ start' = now
    /\ tool_times' = [n \in ToolNames |-> NoEntry]
    /\ lastWriter' = [n \in ToolNames |-> NoCall]
    /\ runs' = runs + 1
    /\ max_iterations' = RunMaxIterations
    /\ sess' = "Pending"
    /\ pc' = "stream"
    /\ UNCHANGED <<otherVars, envVars, now, discoveries, agents, iteration_count,
                   outstanding, nextId, called, emitted, exc, stream, sent,
                   streamClosed, handled, errorSeen, reports, result,
                   exitCode>>

\* ------------------------------------------------- the agent session
\* the events of the stream; output is the kind of tool_output a
\* ToolCallResult carries
ToolCall(n, i) ==
    [type |-> "ToolCall", tool_name |-> n, id |-> i, output |-> "none"]
ToolCallResult(n, i, o) ==
    [type |-> "ToolCallResult", tool_name |-> n, id |-> i, output |-> o]
AgentOutput ==
    [type |-> "AgentOutput", tool_name |-> "none", id |-> NoCall,
     output |-> "none"]

\* tool-level errors: get_resource_data raises on a missing or malformed
\* file and returns the unsupported payload for another extension
ToolErrors == {"ToolNotFound", "ToolParseError", "ToolUnsupportedInput"}

\* what a tool can answer: get_metadata_schema returns its constant,
\* get_resource_data a preview or a tool-level error
Outputs(n) ==
    IF n = "get_metadata_schema" THEN {"schema"} ELSE {"preview"} \cup ToolErrors

Running == sess \in {"Pending", "ToolCalling", "ToolResult"}

\* the session hands the loop one event at a time
Room == stream = <<>>

\* ghost record of an emitted event: which event, not what it carries
Sent(ev) == [type |-> ev.type, tool_name |-> ev.tool_name, id |-> ev.id]

\* the session emits a tool event; it emits one that is not the result of a
\* call only when the results of all calls still fit, k events with it
Emit(ev, k) ==
    /\ Room
    /\ emitted + Cardinality(outstanding) + k <= MaxEvents
    /\ emitted' = emitted + 1
    /\ stream' = Append(stream, ev)
    /\ sent' = Append(sent, Sent(ev))

\* the agent opens a tool-calling round with a first call of tool n
AgentStartRound(n) ==
    /\ sess \in {"Pending", "ToolResult"}
    /\ iteration_count < max_iterations
    /\ Emit(ToolCall(n, nextId), 2)
    /\ iteration_count' = iteration_count + 1
    /\ sess' = "ToolCalling"
    /\ outstanding' = outstanding \cup {[id |-> nextId, tool_name |-> n]}
    /\ called' = called \cup {n}
    /\ nextId' = nextId + 1
    /\ UNCHANGED <<otherVars, envVars, pc, now, countVars, exc, streamClosed, loopVars,
                   stdout, result, exitCode>>

\* the agent issues one more call of tool n in the open round
AgentCall(n) ==
    /\ sess = "ToolCalling"
    /\ Emit(ToolCall(n, nextId), 2)
    /\ outstanding' = outstanding \cup {[id |-> nextId, tool_name |-> n]}
    /\ called' = called \cup {n}
    /\ nextId' = nextId + 1
    /\ UNCHANGED <<otherVars, envVars, pc, now, countVars, sess, iteration_count, exc,
                   streamClosed, loopVars, stdout, result, exitCode>>

\* the tool answers call c; the round closes with its last result
AgentResult(c, o) ==
    /\ sess = "ToolCalling"
    /\ c \in outstanding
    /\ o \in Outputs(c.tool_name)
    /\ Emit(ToolCallResult(c.tool_name, c.id, o), 0)
    /\ outstanding' = outstanding \ {c}
    /\ sess' = IF outstanding' = {} THEN "ToolResult" ELSE "ToolCalling"
    /\ UNCHANGED <<otherVars, envVars, pc, now, countVars, iteration_count, nextId,
                   called, exc, streamClosed, loopVars, stdout, result,
                   exitCode>>

\* a ToolCallResult of a tool n the session has not called
AgentOrphanResult(n) ==
    /\ Running
    /\ n \notin called
    /\ Emit(ToolCallResult(n, NoCall, "none"), 1)
    /\ UNCHANGED <<otherVars, envVars, pc, now, countVars, sess, iteration_count,
                   outstanding, nextId, called, exc, streamClosed, loopVars,
                   stdout, result, exitCode>>

\* the agent answers: its last output is an event of the stream too, and
\* it may follow a result the loop has not taken yet
AgentComplete ==
    /\ sess \in {"Pending", "ToolResult"}
    /\ sess' = "Completed"
    /\ stream' = Append(stream, AgentOutput)
    /\ sent' = Append(sent, Sent(AgentOutput))
    /\ streamClosed' = TRUE
    /\ UNCHANGED <<otherVars, envVars, pc, now, countVars, iteration_count, outstanding,
                   nextId, called, emitted, exc, loopVars, stdout, result,
                   exitCode>>

\* the agent wants another round and has used up its ceiling
AgentCeiling ==
    /\ sess = "ToolResult"
    /\ Room
    /\ iteration_count >= max_iterations
    /\ sess' = "IterationCeilingReached"
    /\ exc' = [type |-> "WorkflowRuntimeError", text |-> CeilingText]
    /\ streamClosed' = TRUE
    /\ UNCHANGED <<otherVars, envVars, pc, now, countVars, iteration_count, outstanding,
                   nextId, called, emitted, stream, sent, loopVars, stdout,
                   result, exitCode>>

BackendExceptions ==
    [type : {"WorkflowRuntimeError"}, text : RuntimeTexts]
      \cup [type : {"ResponseError"}, text : BackendTexts]
      \cup [type : {"HttpxConnectError"}, text : ConnectTexts]

\* a request to the backend fails: the backend is unreachable, rejects the
\* request, or the session fails on its answer
AgentBackendFailure(e) ==
    /\ sess \in {"Pending", "ToolResult"}
    /\ Room
    /\ sess' = "BackendFailure"
    /\ exc' = e
    /\ streamClosed' = TRUE
    /\ UNCHANGED <<otherVars, envVars, pc, now, countVars, iteration_count, outstanding,
                   nextId, called, emitted, stream, sent, loopVars, stdout,
                   result, exitCode>>

AgentStep ==
    \/ \E n \in ToolNames : AgentStartRound(n)
    \/ \E n \in ToolNames : AgentCall(n)
    \/ \E c \in outstanding : \E o \in Outputs(c.tool_name) : AgentResult(c, o)
    \/ \E n \in ToolNames : AgentOrphanResult(n)
    \/ AgentComplete
    \/ AgentCeiling
    \/ \E e \in BackendExceptions : AgentBackendFailure(e)

\* ------------------------------------------ handle_user_message: the loop
\* ghost record of a handled event
Handled(ev) == [type |-> ev.type, tool_name |-> ev.tool_name, id |-> ev.id,
                at |-> now]

\* a ToolCall that keeps the entry of an earlier call of the tool
OnToolCallKeepFirst(ev) ==
    /\ tool_times' = IF tool_times[ev.tool_name] = NoEntry
                     THEN [tool_times EXCEPT ![ev.tool_name] = now]
                     ELSE tool_times
    /\ lastWriter' = IF tool_times[ev.tool_name] = NoEntry
                     THEN [lastWriter EXCEPT ![ev.tool_name] = ev.id]
                     ELSE lastWriter
    /\ stdout' = Append(stdout, Line(<<"Calling tool", ev.tool_name>>,
                                     "none", -1))
    /\ UNCHANGED reports

\* a ToolCall of get_resource_data taken only after get_metadata_schema
OnToolCallSchemaFirst(ev) ==
    /\ ev.tool_name = "get_resource_data"
          => tool_times["get_metadata_schema"] # NoEntry
    /\ tool_times' = [tool_times EXCEPT ![ev.tool_name] = now]
    /\ lastWriter' = [lastWriter EXCEPT ![ev.tool_name] = ev.id]
    /\ stdout' = Append(stdout, Line(<<"Calling tool", ev.tool_name>>,
                                     "none", -1))
    /\ UNCHANGED reports

\* line 125-128: a ToolCall writes tool_times[tool_name] and prints
OnToolCall(ev) ==
    /\ tool_times' = [tool_times EXCEPT ![ev.tool_name] = now]
    /\ lastWriter' = [lastWriter EXCEPT ![ev.tool_name] = ev.id]
    /\ stdout' = Append(stdout, Line(<<"Calling tool", ev.tool_name>>,
                                     "none", -1))
    /\ UNCHANGED reports

\* the result handled without the membership test of line 130
OnToolCallResultUnguarded(ev) ==
    /\ LET elapsed == now - tool_times[ev.tool_name] IN
         /\ stdout' = Append(stdout,
                             Line(<<"Tool completed", ev.tool_name>>,
                                  "none", elapsed))
         /\ reports' = Append(reports,
                              [tool_name |-> ev.tool_name,
                               elapsed |-> elapsed,
                               result_of |-> ev.id,
                               paired |-> lastWriter[ev.tool_name],
                               event |-> Len(handled) + 1])
    /\ UNCHANGED <<tool_times, lastWriter>>

\* the result of a failed tool passed over without a line
OnToolCallResultSkipsErrors(ev) ==
    /\ IF tool_times[ev.tool_name] # NoEntry /\ ev.output \notin ToolErrors
       THEN LET elapsed == now - tool_times[ev.tool_name] IN
            /\ stdout' = Append(stdout,
                                Line(<<"Tool completed", ev.tool_name>>,
                                     "none", elapsed))
            /\ reports' = Append(reports,
                                 [tool_name |-> ev.tool_name,
                                  elapsed |-> elapsed,
                                  result_of |-> ev.id,
                                  paired |-> lastWriter[ev.tool_name],
                                  event |-> Len(handled) + 1])
       ELSE UNCHANGED <<stdout, reports>>
    /\ UNCHANGED <<tool_times, lastWriter>>

\* the result that removes the entry it was timed against
OnToolCallResultPops(ev) ==
    /\ IF tool_times[ev.tool_name] # NoEntry
       THEN LET elapsed == now - tool_times[ev.tool_name] IN
            /\ stdout' = Append(stdout,
                                Line(<<"Tool completed", ev.tool_name>>,
                                     "none", elapsed))
            /\ reports' = Append(reports,
                                 [tool_name |-> ev.tool_name,
                                  elapsed |-> elapsed,
                                  result_of |-> ev.id,
                                  paired |-> lastWriter[ev.tool_name],
                                  event |-> Len(handled) + 1])
       ELSE UNCHANGED <<stdout, reports>>
    /\ tool_times' = [tool_times EXCEPT ![ev.tool_name] = NoEntry]
    /\ UNCHANGED lastWriter

\* lines 129-134: a ToolCallResult of a tracked name prints the time since
\* tool_times[tool_name]["start"]; of an untracked name it does nothing
OnToolCallResult(ev) ==
    /\ IF tool_times[ev.tool_name] # NoEntry
       THEN LET elapsed == now - tool_times[ev.tool_name] IN
            /\ stdout' = Append(stdout,
                                Line(<<"Tool completed", ev.tool_name>>,
                                     "none", elapsed))
            /\ reports' = Append(reports,
                                 [tool_name |-> ev.tool_name,
                                  elapsed |-> elapsed,
                                  result_of |-> ev.id,
                                  paired |-> lastWriter[ev.tool_name],
                                  event |-> Len(handled) + 1])
       ELSE UNCHANGED <<stdout, reports>>
    /\ UNCHANGED <<tool_times, lastWriter>>

\* the loop takes the newest event first
NextEventNewest(s) == s[Len(s)]

\* line 123: the async for takes the events in the order of the stream
NextEvent(s) == Head(s)

\* lines 123-136: one turn of the async for over handler.stream_events()
HandleEvent ==
    /\ pc = "stream"
    /\ stream # <<>>
    /\ LET ev == NextEvent(stream) IN
        /\ stream' = Tail(stream)
        /\ handled' = Append(handled, Handled(ev))
        /\ errorSeen' = (errorSeen \/ ev.output \in ToolErrors)
        /\ CASE ev.type = "ToolCall" -> OnToolCall(ev)
             [] ev.type = "ToolCallResult" -> OnToolCallResult(ev)
             [] OTHER -> UNCHANGED <<tool_times, lastWriter, stdout, reports>>
    /\ UNCHANGED <<otherVars, envVars, pc, now, countVars, sess, iteration_count,
                   outstanding, nextId, called, emitted, exc, sent,
                   streamClosed, start, result, exitCode>>

\* the loop leaves the stream only when the session has answered
StreamExhaustedOnAnswer == stream = <<>> /\ sess = "Completed"

\* line 123: stream_events() is exhausted when the session wrote its last
\* event and the loop handled them all
StreamExhausted == stream = <<>> /\ streamClosed

\* line 123: the async for ends
StreamEnd ==
    /\ pc = "stream"
    /\ StreamExhausted
    /\ pc' = "await"
    /\ UNCHANGED <<otherVars, envVars, now, countVars, agentVars, loopVars, stdout,
                   result, exitCode>>

\* str(e)
Str(e) == e.text

\* the failure message without the cause
FailureMessageBare(e) == <<"Agent failed to produce a response. Error: ", "">>

\* line 141: "Agent failed to produce a response. Error: " + str(e)
FailureMessage(e) == <<"Agent failed to produce a response. Error: ", Str(e)>>

\* the except clause without ResponseError
CaughtRuntimeOnly == {"WorkflowRuntimeError"}

\* line 140: the exception classes the loop catches
Caught == {"WorkflowRuntimeError", "ResponseError"}

\* the total time line printed whatever the await gave
ReachesTotalTimeAlways == TRUE

\* lines 143-146 are reached when the await of line 139 did not raise
ReachesTotalTime == sess = "Completed"

\* the loop starts the session again after a failure
AfterAwaitRetry ==
    IF sess # "Completed" /\ runs < 2 THEN "handle" ELSE "returned"

\* lines 141 and 148: handle_user_message returns; nothing is tried again
AfterAwait == "returned"

\* lines 138-148: await the handler; return the answer after the total
\* time line, return the failure message, or let the exception pass
AwaitHandler ==
    /\ pc = "await"
    /\ sess \in TerminalStates
    /\ stdout' = IF ReachesTotalTime
                 THEN Append(stdout,
                             Line(<<"Completed handling user message">>,
                                  "yellow", now - start))
                 ELSE stdout
    /\ result' = IF sess = "Completed"
                 THEN [kind |-> "return", value |-> <<"answer">>]
                 ELSE IF exc.type \in Caught
                 THEN [kind |-> "return", value |-> FailureMessage(exc)]
                 ELSE [kind |-> "raise", value |-> <<exc.type, Str(exc)>>]
    /\ pc' = AfterAwait
    /\ UNCHANGED <<otherVars, envVars, now, countVars, agentVars, loopVars, exitCode>>

\* generate_metadata, lines 61-69: print the response green, or the red
\* line for an HttpxConnectError; any other exception leaves the command
Finish ==
    /\ pc = "returned"
    /\ IF result.kind = "return"
       THEN /\ stdout' = Append(stdout, Line(result.value, "green", -1))
            /\ exitCode' = 0
       ELSE IF result.value[1] = "HttpxConnectError"
       THEN /\ secho(<<"Failed to connect to Ollama model. Please check the Ollama base URL.">>,
                     "red")
            /\ exitCode' = 0
       ELSE /\ UNCHANGED stdout
            /\ exitCode' = 1
    /\ pc' = "done"
    /\ UNCHANGED <<otherVars, envVars, now, countVars, agentVars, loopVars, result>>

LoopStep == HandleEvent \/ StreamEnd \/ AwaitHandler

\* the session runs from agent.run on, concurrently with the loop
Next ==
    \/ Tick
    \/ RunMcpMissing
    \/ RunMcpServe
    \/ DiscoverOk
    \/ DiscoverFail
    \/ GetAgent
    \/ HumStart
    \/ AgentStep
    \/ LoopStep
    \/ Finish

Spec == Init /\ [][Next]_vars

\* the event loop runs every ready coroutine and every request to the
\* backend ends within OLLAMA_TIMEOUT
FairSpec == Spec /\ WF_vars(AgentStep) /\ WF_vars(LoopStep) /\ WF_vars(Finish)

TypeOK ==
    /\ sess \in SessionStates
    /\ pc \in {"entry", "get_agent", "handle", "stream", "await", "returned",
               "done"}
    /\ now \in 0..MaxTime
    /\ exitCode \in {-1, 0, 1}
    /\ exc.type \in ExceptionTypes \cup {"none"}
    /\ emitted \in 0..MaxEvents
    /\ Len(stream) <= 2
    /\ errorSeen \in BOOLEAN
    /\ \A n \in ToolNames : tool_times[n] \in {NoEntry} \cup 0..MaxTime

\* ------------------------------------------------------------ tool server
\* mcp_client/main.py: the two tools the MCP server offers.  A filepath is
\* the tuple of its characters.
Min(a, b) == IF a <= b THEN a ELSE b

ColumnNames == {"a", "b", "c"}
Headers == UNION {[1..c -> ColumnNames] : c \in 1..MaxCols}

\* a CSV file: a header line and the data lines under it, each known by its
\* line number
CsvFiles == {[kind |-> "csv", header |-> h, rows |-> [i \in 1..r |-> i]] :
                 h \in Headers, r \in 0..MaxRows}
\* a Markdown file: the sections MarkdownReader makes documents of
MdFiles == {[kind |-> "md", sections |-> [i \in 1..d |-> i]] :
                d \in 0..MaxDocs}

\* str.lower() on the characters that occur
Lower(ch) ==
    CASE ch = "C" -> "c"
      [] ch = "S" -> "s"
      [] ch = "V" -> "v"
      [] ch = "M" -> "m"
      [] ch = "D" -> "d"
      [] OTHER -> ch
LowerAll(t) == [i \in DOMAIN t |-> Lower(t[i])]

\* the largest index of character ch in t, 0 when there is none (rfind)
RFind(t, ch) ==
    IF \E i \in DOMAIN t : t[i] = ch
    THEN CHOOSE i \in DOMAIN t :
             t[i] = ch /\ \A j \in DOMAIN t : t[j] = ch => j <= i
    ELSE 0

\* PurePath.name: what follows the last separator
Name(path) == SubSeq(path, RFind(path, "/") + 1, Len(path))

\* a suffix taken from any last dot, a leading one included
SuffixOfAnyDot(path) ==
    LET name == Name(path)
        i == RFind(name, ".")
    IN  IF 0 < i /\ i < Len(name) THEN SubSeq(name, i, Len(name)) ELSE <<>>

\* line 98, PurePath.suffix: the last dot of the name and what follows it,
\* unless the dot is the first or the last character of the name
Suffix(path) ==
    LET name == Name(path)
        i == RFind(name, ".")
    IN  IF 1 < i /\ i < Len(name) THEN SubSeq(name, i, Len(name)) ELSE <<>>

DotCsv == <<".", "c", "s", "v">>
DotMd == <<".", "m", "d">>
DotMarkdown == <<".", "m", "a", "r", "k", "d", "o", "w", "n">>

\* line 122
SupportedExtensions == <<DotCsv, DotMd, DotMarkdown>>

\* lines 105 and 115: df.head(3), docs[:3]
PreviewRows == 3
PreviewDocs == 3

\* pd.read_csv names the columns after the header line; a name that occurred
\* k times before gets the suffix .k
Mangle(header) ==
    [i \in DOMAIN header |->
        [name |-> header[i],
         dup |-> Cardinality({j \in 1..(i - 1) : header[j] = header[i]})]]

\* line 101: the frame of a CSV file, its rows labelled 0, 1, 2, ...
read_csv(file) ==
    [columns |-> Mangle(file.header),
     index |-> [i \in DOMAIN file.rows |-> i - 1],
     rows |-> file.rows]

\* a preview of the whole frame
headAll(df, n) == df

\* line 105, df.head(n): the first n rows, all of them when there are fewer
head(df, n) ==
    [columns |-> df.columns,
     index |-> SubSeq(df.index, 1, Min(n, Len(df.index))),
     rows |-> SubSeq(df.rows, 1, Min(n, Len(df.rows)))]

\* line 105, df.to_string(): the column names, then one line per row with
\* its label
to_string(df) ==
    [header |-> df.columns,
     lines |-> [i \in DOMAIN df.rows |->
                   [label |-> df.index[i], row |-> df.rows[i]]]]

Return(v) == [kind |-> "return", value |-> v]
Raise(e) == [kind |-> "raise", exc |-> e]

\* lines 25-64: the properties of the schema
SchemaProperties ==
    [title |-> [type |-> "string"],
     notes |-> [type |-> "string"],
     publisher |-> [type |-> <<"object", "null">>,
                    properties |-> [name |-> [type |-> "string"],
                                    email |-> [type |-> "string"]],
                    required |-> <<"name", "email">>],
     tags |-> [type |-> "array",
               minItems |-> 1,
               items |-> [type |-> "object",
                          properties |-> [name |-> [type |-> "string"]],
                          required |-> <<"name">>]],
     license |-> [type |-> <<"string", "null">>],
     organization |-> [type |-> <<"object", "null">>,
                       properties |-> [name |-> [type |-> "string"],
                                       title |-> [type |-> "string"]],
                       required |-> <<"name", "title">>],
     update_frequency |-> [type |-> <<"string", "null">>,
                           enum |-> <<"daily", "weekly", "monthly",
                                      "quarterly", "biennially",
                                      "biannually", "annually",
                                      "infrequently", "never">>],
     language |-> [type |-> <<"string", "null">>],
     jurisdiction |-> [type |-> <<"string", "null">>]]

\* a schema that lets unknown properties through
get_metadata_schemaOpen ==
    [schema |-> "http://json-schema.org/draft-07/schema#",
     type |-> "object",
     properties |-> SchemaProperties,
     required |-> <<"title", "notes", "tags">>,
     additionalProperties |-> TRUE]

\* lines 22-67: the schema, the same literal at every call
get_metadata_schema ==
    [schema |-> "http://json-schema.org/draft-07/schema#",
     type |-> "object",
     properties |-> SchemaProperties,
     required |-> <<"title", "notes", "tags">>,
     additionalProperties |-> FALSE]

\* lines 97-124: dispatch on the lower-cased suffix.  A file that is not
\* there makes the reader raise.
get_resource_data(filepath, d) ==
    LET suffix == LowerAll(Suffix(filepath)) IN
    IF suffix = DotCsv
    THEN IF d.csv = Absent
         THEN Raise("FileNotFoundError")
         ELSE LET df == read_csv(d.csv) IN
              Return([branch |-> "csv",
                      columns |-> df.columns,
                      sample |-> to_string(head(df, PreviewRows))])
    ELSE IF suffix \in {DotMd, DotMarkdown}
    THEN IF d.md = Absent
         THEN Raise("FileNotFoundError")
         ELSE Return([branch |-> "markdown",
                      format |-> "markdown",
                      documents |->
                          SubSeq(d.md.sections, 1,
                                 Min(PreviewDocs, Len(d.md.sections)))])
    ELSE Return([branch |-> "unsupported",
                 error |-> "Unsupported file type",
                 supported_extensions |-> SupportedExtensions,
                 received_extension |-> suffix])

\* the filepaths the agent asks for
Filepaths ==
    {<<"d", ".", "c", "s", "v">>,
     <<"d", ".", "C", "S", "V">>,
     <<"d", ".", "t", ".", "c", "s", "v">>,
     <<"d", ".", "m", "d">>,
     <<"d", ".", "M", "d">>,
     <<"d", ".", "m", "a", "r", "k", "d", "o", "w", "n">>,
     <<"d", ".", "t">>,
     <<"d">>,
     <<"d", ".">>,
     <<".", "c", "s", "v">>,
     <<"d", ".", "c", "s", "v", ".", "t">>,
     <<"d", ".", "c", "s", "v", "x">>,
     <<"d", ".", "c", "s", "v", "/", "d">>,
     <<"d", ".", "m", "d", "/", ".", "m", "d">>}

\* the server is up; its disk holds at most one file, which a call reads
\* under the names of its kind
ServerInit ==
    /\ disk \in [csv : CsvFiles \cup {Absent}, md : {Absent}]
                  \cup [csv : {Absent}, md : MdFiles]
    /\ call = NoToolCall
    /\ reply = NoReply
    /\ schemas = <<>>

\* the command that started the server has nothing to do with its replies
ToolInit ==
    /\ CommandInit
    /\ command = "run-mcp"
    /\ main_path_exists
    /\ AGENT_MAX_ITERATIONS = 1
    /\ ServerInit
    /\ IsoIdle

\* a call of the tool get_metadata_schema
CallGetMetadataSchema ==
    /\ Len(schemas) < MaxSchemaCalls
    /\ call' = [tool |-> "get_metadata_schema", filepath |-> <<>>]
    /\ reply' = Return(get_metadata_schema)
    /\ schemas' = Append(schemas, get_metadata_schema)
    /\ UNCHANGED <<commandVars, isoVars, disk>>

\* a call of the tool get_resource_data
CallGetResourceData(filepath) ==
    /\ call' = [tool |-> "get_resource_data", filepath |-> filepath]
    /\ reply' = get_resource_data(filepath, disk)
    /\ UNCHANGED <<commandVars, isoVars, disk, schemas>>

ToolNext ==
    \/ CallGetMetadataSchema
    \/ \E filepath \in Filepaths : CallGetResourceData(filepath)

ToolSpec == ToolInit /\ [][ToolNext]_vars

\* ------------------------------------------------------------ two requests
\* two runs of handle_user_message interleaved in one process.  Each run
\* has its own session; both read the clock and Config.

\* every run uses one dict
SlotShared(s) == "A"

\* line 116: tool_times = {} is made anew by every run
Slot(s) == s

\* what a run does not touch
isoFrame == <<serverVars, envVars, pc, countVars, agentVars, loopVars,
              stdout, result, exitCode>>

IsoInit ==
    /\ CommandInit
    /\ command = "generate-metadata"
    /\ ServerIdle
    /\ IsoIdle

\* lines 114-122: start, tool_times = {}, agent.run with the ceiling
IsoStart(s) ==
    /\ isoPc[s] = "handle"
    /\ isoPc' = [isoPc EXCEPT ![s] = "stream"]
    /\ isoTimes' = [isoTimes EXCEPT ![Slot(s)] = [n \in ToolNames |-> NoEntry]]
    /\ isoOwn' = [isoOwn EXCEPT ![s] = [n \in ToolNames |-> NoEntry]]
    /\ isoMax' = [isoMax EXCEPT ![s] = AGENT_MAX_ITERATIONS]
    /\ UNCHANGED <<isoFrame, now, isoPending, isoIters, isoElapsed>>

\* the session of s starts a round and calls tool n; lines 124-128
IsoToolCall(s, n) ==
    /\ isoPc[s] = "stream"
    /\ isoIters[s] < isoMax[s]
    /\ n \notin isoPending[s]
    /\ isoIters' = [isoIters EXCEPT ![s] = @ + 1]
    /\ isoPending' = [isoPending EXCEPT ![s] = @ \cup {n}]
    /\ isoTimes' = [isoTimes EXCEPT ![Slot(s)][n] = now]
    /\ isoOwn' = [isoOwn EXCEPT ![s][n] = now]
    /\ UNCHANGED <<isoFrame, now, isoPc, isoMax, isoElapsed>>

\* the session of s delivers the result of n; lines 129-134
IsoToolCallResult(s, n) ==
    /\ isoPc[s] = "stream"
    /\ n \in isoPending[s]
    /\ isoPending' = [isoPending EXCEPT ![s] = @ \ {n}]
    /\ isoElapsed' = IF isoTimes[Slot(s)][n] # NoEntry
                     THEN [isoElapsed EXCEPT ![s] = now - isoTimes[Slot(s)][n]]
                     ELSE isoElapsed
    /\ UNCHANGED <<isoFrame, now, isoPc, isoTimes, isoOwn, isoIters, isoMax>>

\* lines 138-148: the stream of s ends and its run returns
IsoReturn(s) ==
    /\ isoPc[s] = "stream"
    /\ isoPending[s] = {}
    /\ isoPc' = [isoPc EXCEPT ![s] = "returned"]
    /\ UNCHANGED <<isoFrame, now, isoTimes, isoOwn, isoPending, isoIters,
                   isoMax, isoElapsed>>

\* time passes while a run is in its stream
IsoTick ==
    /\ \E s \in Sessions : isoPc[s] = "stream"
    /\ now < MaxTime
    /\ now' = now + 1
    /\ UNCHANGED <<isoFrame, isoVars>>

IsoStep(s) ==
    \/ IsoStart(s)
    \/ \E n \in ToolNames : IsoToolCall(s, n)
    \/ \E n \in ToolNames : IsoToolCallResult(s, n)
    \/ IsoReturn(s)

IsoNext ==
    \/ IsoTick
    \/ \E s \in Sessions : IsoStep(s)

IsoSpec == IsoInit /\ [][IsoNext]_vars

\* --------------------------------------------------------------- helpers
Last(s) == s[Len(s)]
Printed(text) == \E i \in DOMAIN stdout : stdout[i].text = text
Returned == pc \in {"returned", "done"} /\ runs >= 1

DiscoveryFailedLine ==
    <<"Failed to create MCP tools. Please check the MCP client URL.">>
ConnectFailedLine ==
    <<"Failed to connect to Ollama model. Please check the Ollama base URL.">>
FailurePrefix == "Agent failed to produce a response. Error: "

\* ------------------------------------------------------------------- C1
\* C1: the session never performs more tool-calling rounds than
\* Config.AGENT_MAX_ITERATIONS, and it ends in IterationCeilingReached only
\* after exactly that many rounds.
C1_CeilingBound ==
    /\ iteration_count <= AGENT_MAX_ITERATIONS
    /\ sess = "IterationCeilingReached"
         => /\ iteration_count = AGENT_MAX_ITERATIONS
            /\ exc = [type |-> "WorkflowRuntimeError", text |-> CeilingText]

C1_Witness ==
    /\ sess = "IterationCeilingReached"
    /\ iteration_count = AGENT_MAX_ITERATIONS
    /\ AGENT_MAX_ITERATIONS = MaxCeiling

\* ------------------------------------------------------------------- C2
SessionMove ==
    \/ sess = "NotStarted" /\ sess' = "Pending"
    \/ sess = "Pending" /\ sess' \in {"ToolCalling"} \cup TerminalStates
    \/ sess = "ToolCalling" /\ sess' = "ToolResult"
    \/ sess = "ToolResult" /\ sess' \in {"ToolCalling"} \cup TerminalStates

\* C2: a run started by handle_user_message ends, and when it has ended the
\* session is in Completed, IterationCeilingReached or BackendFailure; the
\* session gets there from Pending through ToolCalling and ToolResult only
\* and never leaves a terminal state.
C2_Terminates ==
    /\ [][SessionMove]_sess
    /\ [](Returned => sess \in TerminalStates)
    /\ (pc = "stream") ~> (Returned /\ sess \in TerminalStates)

C2_Witness ==
    /\ pc = "returned"
    /\ sess = "Completed"
    /\ iteration_count = 2

\* ------------------------------------------------------------------- C3
\* C3 as stated: on every backend failure handle_user_message returns the
\* fixed-format failure message with the cause and raises nothing.
C3_Original ==
    (Returned /\ sess = "BackendFailure")
        => result = [kind |-> "return",
                     value |-> <<FailurePrefix, exc.text>>]

\* C3, amended: a backend failure raised as ResponseError or
\* WorkflowRuntimeError makes handle_user_message return the one failure
\* message with the cause; an unreachable backend (HttpxConnectError) passes
\* through handle_user_message to generate_metadata, which prints the fixed
\* red line and ends normally.
C3_FailureHandled ==
    (Returned /\ sess = "BackendFailure")
        => IF exc.type \in {"WorkflowRuntimeError", "ResponseError"}
           THEN /\ result = [kind |-> "return",
                             value |-> <<FailurePrefix, exc.text>>]
                /\ pc = "done" => /\ Last(stdout).text = result.value
                                  /\ exitCode = 0
           ELSE /\ exc.type = "HttpxConnectError"
                /\ result = [kind |-> "raise",
                             value |-> <<"HttpxConnectError", exc.text>>]
                /\ pc = "done" => /\ Last(stdout) =
                                       Line(ConnectFailedLine, "red", -1)
                                  /\ exitCode = 0

C3_Witness ==
    /\ pc = "done"
    /\ sess = "BackendFailure"
    /\ exc.type = "ResponseError"
    /\ iteration_count = 1

\* ------------------------------------------------------------------- C4
TotalTimeReported == Printed(<<"Completed handling user message">>)

\* C4 as stated: the total time is reported on every outcome of a run.
C4_Original == Returned => TotalTimeReported

\* C4, amended: the total elapsed time is reported exactly when the run
\* ends in success; on iteration ceiling and on backend failure
\* handle_user_message ends without reporting it.
C4_TotalTimeOnSuccess == Returned => (TotalTimeReported <=> sess = "Completed")

C4_Witness ==
    /\ pc = "returned"
    /\ sess = "IterationCeilingReached"
    /\ ~TotalTimeReported

\* ------------------------------------------------------------------- C5
\* what a reader of the last printed line takes the outcome to be
Classify(line) ==
    IF line.text = ConnectFailedLine THEN "BackendUnreachable"
    ELSE IF Len(line.text) = 2 /\ line.text[1] = FailurePrefix
    THEN IF line.text[2] = CeilingText THEN "IterationCeilingReached"
         ELSE IF line.text[2] \in BackendTexts THEN "BackendResponseError"
         ELSE "RuntimeError"
    ELSE "Answer"

\* the outcome of the run
Outcome ==
    IF sess = "Completed" THEN "Answer"
    ELSE IF sess = "IterationCeilingReached" THEN "IterationCeilingReached"
    ELSE IF exc.type = "HttpxConnectError" THEN "BackendUnreachable"
    ELSE IF exc.type = "ResponseError" THEN "BackendResponseError"
    ELSE "RuntimeError"

\* C5: the line printed for a run tells the iteration ceiling, the
\* unreachable backend and the backend response error apart.
C5_Distinguishable ==
    (pc = "done" /\ runs >= 1) => Classify(Last(stdout)) = Outcome

C5_Witness ==
    /\ pc = "done"
    /\ sess = "IterationCeilingReached"
    /\ Classify(Last(stdout)) = "IterationCeilingReached"

\* ------------------------------------------------------------------- C6
DiscoveryFailed ==
    \E i \in DOMAIN stdout :
        stdout[i] = Line(DiscoveryFailedLine, "red", -1)

\* C6: tools are discovered once and before the agent is constructed; a
\* failed discovery ends the command with the red line, without a second
\* discovery, an agent or an agent run.
C6_DiscoveryFirst ==
    /\ discoveries <= 1
    /\ agents >= 1 => discoveries = 1
    /\ runs >= 1 => agents = 1
    /\ (command = "generate-metadata" /\ pc = "done") => discoveries = 1
    /\ DiscoveryFailed => /\ agents = 0
                          /\ runs = 0
                          /\ sess = "NotStarted"
                          /\ pc = "done"
                          /\ exitCode = 0

C6_Witness ==
    /\ DiscoveryFailed
    /\ pc = "done"
    /\ discoveries = 1

\* ------------------------------------------------------------------- C7
\* C7 as stated: a result is paired with the most recent unmatched call of
\* its tool name, so no call is paired with two results.
C7_PairedOnce ==
    \A i, j \in DOMAIN reports :
        i # j => reports[i].paired # reports[j].paired

\* ------------------------------------------------------------------- C8
CallHandled(n) ==
    \E j \in DOMAIN handled :
        handled[j].type = "ToolCall" /\ handled[j].tool_name = n

\* the loop is about to handle a result whose tool name had no call
OrphanNext ==
    /\ pc = "stream"
    /\ stream # <<>>
    /\ Head(stream).type = "ToolCallResult"
    /\ ~CallHandled(Head(stream).tool_name)

\* C8: handling a ToolCallResult whose tool name had no ToolCall before
\* leaves the loop running, prints nothing and leaves tool_times as it was.
C8_OrphanIgnored ==
    [][(OrphanNext /\ handled' # handled)
         => /\ pc' = "stream"
            /\ stream' = Tail(stream)
            /\ UNCHANGED <<tool_times, reports, stdout, result, exitCode>>]_vars

C8_Witness ==
    /\ Len(handled) >= 2
    /\ handled[1].type = "ToolCallResult"
    /\ handled[2].type = "ToolCall"
    /\ handled[2].tool_name # handled[1].tool_name
    /\ tool_times[handled[1].tool_name] = NoEntry
    /\ reports = <<>>

\* ------------------------------------------------------------------- C9
\* the time the loop handled the ToolCall with call id c
IssuedAt(c) ==
    LET j == CHOOSE k \in DOMAIN handled :
                 handled[k].type = "ToolCall" /\ handled[k].id = c
    IN handled[j].at

\* C9 as stated: the latency reported for a result is the time from the
\* handling of the call it answers to the handling of the result.
C9_LatencyOfCall ==
    \A i \in DOMAIN reports :
        reports[i].result_of # NoCall
            => reports[i].elapsed =
                   handled[reports[i].event].at - IssuedAt(reports[i].result_of)

\* ------------------------------------------------------------------ C10
InFlowFailure ==
    \/ DiscoveryFailed
    \/ sess \in {"BackendFailure", "IterationCeilingReached"}

\* C10 as stated: every in-flow failure of generate-metadata ends with a red
\* line and exit status 0; only a startup failure gives a non-zero status.
C10_RedAndNormalExit ==
    /\ (pc = "done" /\ command = "generate-metadata" /\ InFlowFailure)
          => /\ Last(stdout).fg = "red"
             /\ exitCode = 0
    /\ exitCode = 1 => command = "run-mcp" /\ ~main_path_exists

\* ------------------------------------------------------------------ C11
\* the step is one of the loop or of the command, not of the session
LoopOrCommandStep == pc' # pc \/ handled' # handled

\* C11: a request starts the agent session at most once, the loop issues no
\* tool call of its own, and after the session has ended (answer, ceiling
\* or backend failure, with or without tool-level errors before) nothing is
\* started or called again.
C11_NoRetry ==
    [][/\ runs' <= 1
       /\ runs' # runs => (pc = "handle" /\ sess = "NotStarted")
       /\ LoopOrCommandStep
            => (UNCHANGED <<nextId, emitted, outstanding, sent>>
                /\ Len(stream') <= Len(stream))
       /\ sess \in TerminalStates
            => UNCHANGED <<sess, runs, nextId, emitted, sent>>]_vars

C11_Witness ==
    /\ pc = "done"
    /\ runs = 1
    /\ errorSeen
    /\ sess = "IterationCeilingReached"
    /\ nextId = 2

\* ------------------------------------------------------------------ C13
\* the loop is about to handle a result that carries a tool-level error
ToolErrorNext ==
    /\ pc = "stream"
    /\ stream # <<>>
    /\ Head(stream).type = "ToolCallResult"
    /\ Head(stream).output \in ToolErrors

\* C13: handling a ToolCallResult that carries a tool-level error raises
\* nothing and ends nothing: the loop stays in the stream and treats the
\* result as it treats a successful one, printing the time since the entry
\* of its tool name.
C13_ToolErrorIsData ==
    [][(ToolErrorNext /\ handled' # handled)
         => /\ pc' = "stream"
            /\ result' = NoResult
            /\ exitCode' = -1
            /\ sess' = sess
            /\ tool_times' = tool_times
            /\ stream' = Tail(stream)
            /\ LET n == Head(stream).tool_name IN
                 IF tool_times[n] # NoEntry
                 THEN /\ Len(reports') = Len(reports) + 1
                      /\ Last(reports').elapsed = now - tool_times[n]
                      /\ Last(stdout') =
                           Line(<<"Tool completed", n>>, "none",
                                now - tool_times[n])
                 ELSE UNCHANGED <<reports, stdout>>]_vars

C13_Witness ==
    /\ errorSeen
    /\ pc = "stream"
    /\ Len(handled) = 3
    /\ handled[2].type = "ToolCallResult"
    /\ handled[3].type = "ToolCall"
    /\ Len(reports) = 1

\* ------------------------------------------------------------------ C17
ToolCallNext ==
    /\ pc = "stream"
    /\ stream # <<>>
    /\ Head(stream).type = "ToolCall"

\* C17: handling a ToolCall of tool T sets the entry of T to the current
\* time, whatever it was, and leaves the entry of every other tool name.
C17_CallOverwrites ==
    [][(ToolCallNext /\ handled' # handled)
         => \A n \in ToolNames :
                tool_times'[n] = IF n = Head(stream).tool_name
                                 THEN now
                                 ELSE tool_times[n]]_vars

C17_Witness ==
    /\ Len(handled) = 2
    /\ handled[1].type = "ToolCall"
    /\ handled[2].type = "ToolCall"
    /\ handled[1].tool_name = "get_resource_data"
    /\ handled[2].tool_name = "get_resource_data"
    /\ handled[1].at = 0
    /\ handled[2].at = 1
    /\ tool_times["get_resource_data"] = 1
    /\ tool_times["get_metadata_schema"] = NoEntry

\* ------------------------------------------------------------------ C18
AllHandled == stream = <<>> /\ Len(handled) = Len(sent)

\* C18: the loop handles the events in the order the session emitted them,
\* and handle_user_message awaits the handler and ends only when every
\* emitted event has been handled.
C18_InOrder ==
    /\ Len(handled) + Len(stream) = Len(sent)
    /\ \A i \in DOMAIN handled :
           /\ i <= Len(sent)
           /\ sent[i] = [type |-> handled[i].type,
                         tool_name |-> handled[i].tool_name,
                         id |-> handled[i].id]
    /\ pc \in {"await", "returned", "done"} => AllHandled
    /\ result # NoResult => AllHandled

C18_Witness ==
    /\ pc = "returned"
    /\ Len(sent) = 5
    /\ AllHandled
    /\ handled[5].type = "AgentOutput"

\* ------------------------------------------------------------------ C19
\* C19: the loop takes every event whatever the order of the tool calls,
\* and a session that answers is answered with, whatever tools it called
\* and in whatever order.
C19_AnyOrder ==
    /\ (pc = "stream" /\ stream # <<>>) => ENABLED HandleEvent
    /\ (Returned /\ sess = "Completed")
          => result = [kind |-> "return", value |-> <<"answer">>]
    /\ (pc = "done" /\ sess = "Completed")
          => (exitCode = 0 /\ Last(stdout).fg = "green")

C19_Witness ==
    /\ pc = "done"
    /\ sess = "Completed"
    /\ Len(handled) = 5
    /\ handled[1].type = "ToolCall"
    /\ handled[1].tool_name = "get_resource_data"
    /\ handled[3].type = "ToolCall"
    /\ handled[3].tool_name = "get_metadata_schema"
    /\ result.value = <<"answer">>

\* ------------------------------------------------------------------ C20
Keys == {n \in ToolNames : tool_times[n] # NoEntry}
CalledSoFar ==
    {handled[j].tool_name : j \in {k \in DOMAIN handled :
                                       handled[k].type = "ToolCall"}}

\* C20: the keys of tool_times are the tool names of the ToolCall events
\* handled so far, and no step removes a key.
C20_KeysAreCalls ==
    /\ [](Keys = CalledSoFar)
    /\ [][\A n \in ToolNames :
            tool_times[n] # NoEntry => tool_times'[n] # NoEntry]_vars

C20_Witness ==
    /\ Len(reports) = 2
    /\ reports[1].tool_name = reports[2].tool_name
    /\ Keys = {reports[1].tool_name}

\* ------------------------------------------------------------------ C14
\* the filepaths by the spelling of their extension
CsvPaths ==
    {<<"d", ".", "c", "s", "v">>,
     <<"d", ".", "C", "S", "V">>,
     <<"d", ".", "t", ".", "c", "s", "v">>}
MarkdownPaths ==
    {<<"d", ".", "m", "d">>,
     <<"d", ".", "M", "d">>,
     <<"d", ".", "m", "a", "r", "k", "d", "o", "w", "n">>}
DataCall == call.tool = "get_resource_data"

\* C14: get_resource_data on a filepath whose extension is none of .csv,
\* .md, .markdown (no extension included) returns the unsupported payload
\* with supported_extensions exactly .csv, .md, .markdown and never raises;
\* the CSV branch is taken only for .csv, the Markdown branch only for .md
\* and .markdown.
C14_Dispatch ==
    DataCall =>
      /\ call.filepath \notin CsvPaths \cup MarkdownPaths
            => /\ reply.kind = "return"
               /\ reply.value.branch = "unsupported"
               /\ reply.value.error = "Unsupported file type"
               /\ reply.value.supported_extensions =
                      << <<".", "c", "s", "v">>,
                         <<".", "m", "d">>,
                         <<".", "m", "a", "r", "k", "d", "o", "w", "n">> >>
      /\ (reply.kind = "return" /\ reply.value.branch = "csv")
            => call.filepath \in CsvPaths
      /\ (reply.kind = "return" /\ reply.value.branch = "markdown")
            => call.filepath \in MarkdownPaths

C14_Witness ==
    /\ DataCall
    /\ call.filepath = <<".", "c", "s", "v">>
    /\ disk.csv # Absent
    /\ reply.kind = "return"
    /\ reply.value.branch = "unsupported"
    /\ reply.value.received_extension = <<>>

\* ------------------------------------------------------------------ C15
\* a header whose names are all different
WellFormed(file) ==
    \A i, j \in DOMAIN file.header :
        file.header[i] = file.header[j] => i = j

\* C15: get_resource_data on an existing well-formed .csv file with R data
\* rows and C columns returns the C column names in file order and a
\* preview of the first min(3, R) rows, labelled from 0.
C15_CsvPreview ==
    (DataCall /\ call.filepath \in CsvPaths /\ disk.csv # Absent
       /\ WellFormed(disk.csv))
      => LET R == Len(disk.csv.rows)
             C == Len(disk.csv.header)
             shown == IF R < 3 THEN R ELSE 3
         IN  /\ reply.kind = "return"
             /\ Len(reply.value.columns) = C
             /\ \A i \in 1..C :
                    reply.value.columns[i] =
                        [name |-> disk.csv.header[i], dup |-> 0]
             /\ reply.value.sample.header = reply.value.columns
             /\ Len(reply.value.sample.lines) = shown
             /\ \A i \in 1..shown :
                    reply.value.sample.lines[i] =
                        [label |-> i - 1, row |-> disk.csv.rows[i]]

C15_Witness ==
    /\ DataCall
    /\ call.filepath = <<"d", ".", "c", "s", "v">>
    /\ disk.csv # Absent
    /\ disk.csv.header = <<"a", "b", "c">>
    /\ Len(disk.csv.rows) = 5
    /\ reply.kind = "return"
    /\ Len(reply.value.sample.lines) = 3

\* ------------------------------------------------------------------ C16
\* C16: every call of get_metadata_schema, before or after other tool
\* calls, returns the same schema, with required = {title, notes, tags},
\* tags of at least one item and no additional properties, and no call of
\* it changes the disk of the server.
C16_SchemaPure ==
    /\ [](/\ \A i, j \in DOMAIN schemas : schemas[i] = schemas[j]
          /\ \A i \in DOMAIN schemas :
                 /\ {schemas[i].required[k] :
                        k \in DOMAIN schemas[i].required}
                      = {"title", "notes", "tags"}
                 /\ schemas[i].properties.tags.minItems = 1
                 /\ schemas[i].additionalProperties = FALSE
          /\ call.tool = "get_metadata_schema"
                => reply = [kind |-> "return", value |-> Last(schemas)])
    /\ [][schemas' # schemas => disk' = disk]_vars

C16_Witness ==
    /\ Len(schemas) = 2
    /\ call.tool = "get_resource_data"
    /\ reply.kind = "return"
    /\ reply.value.branch = "csv"

\* ------------------------------------------------------------------ C12
\* the mutable state of the run s
View(s) == <<isoTimes[Slot(s)], isoIters[s], isoPending[s], isoElapsed[s],
             isoPc[s]>>

\* C12: with two runs interleaved, a step of one run leaves the latency
\* map, the iteration count and the rest of the state of the other run
\* unchanged, a run finds in its map only what it wrote itself and times a
\* result against its own call, and Config.AGENT_MAX_ITERATIONS, which
\* both read, is never written.
C12_Isolated ==
    /\ [](\A s \in Sessions :
            isoPc[s] # "handle" => isoTimes[Slot(s)] = isoOwn[s])
    /\ [][\A s, t \in Sessions :
            (IsoStep(s) /\ t # s) => View(t)' = View(t)]_vars
    /\ [][\A s \in Sessions : \A n \in ToolNames :
            (IsoToolCallResult(s, n) /\ isoOwn[s][n] # NoEntry)
              => isoElapsed'[s] = now - isoOwn[s][n]]_vars
    /\ [][AGENT_MAX_ITERATIONS' = AGENT_MAX_ITERATIONS]_vars

C12_Witness ==
    /\ isoPc["A"] = "stream"
    /\ isoPc["B"] = "stream"
    /\ isoTimes["A"]["get_resource_data"] = 0
    /\ isoTimes["B"]["get_resource_data"] = 1
    /\ isoElapsed["A"] = 1
    /\ isoElapsed["B"] = 0
    /\ isoIters["A"] = 1
    /\ isoIters["B"] = 1

====
